---- MODULE Spec2Model ----
(***************************************************************************)
(* A model of the attendance bot of src/bot.py: the per-operator session   *)
(* map TEMP, the persisted JSON document (db.json), the backup directory   *)
(* and the handlers that telebot dispatches callbacks and commands to.     *)
(*                                                                         *)
(* Spec runs every handler to completion before the next one starts.       *)
(* SpecConc lets the two telebot worker threads interleave at the          *)
(* load_db / save_db boundary of the document writers.                     *)
(***************************************************************************)
EXTENDS Integers, Sequences, FiniteSets, TLC

VARIABLES TEMP, db, backups, screen, today, last, jobs, steps, commits

vars == <<TEMP, db, backups, screen, today, last, jobs, steps, commits>>

(***************************************************************************)
(* Bounds of the model.                                                    *)
(***************************************************************************)
MaxRecords == 2
MaxBackups == 1
MaxSteps == 3
MaxConcSteps == 5

(***************************************************************************)
(* Users and inputs.                                                       *)
(***************************************************************************)
ADMIN_IDS == {1, 2}
Workers == {1, 2}
Users == {1, 2, 3}
None == "None"

is_admin_open(uid) == TRUE

is_admin(uid) == uid \in ADMIN_IDS

SampleGroup == "Avto 13-24"
SampleStudents == <<"Abdulatiboyev Hasanjon", "Abdurashidov Behruzbek">>
DemoGroupA == "Demo Group A"
DemoAStudents == <<"Demo Student 1">>
DemoGroupB == "Demo Group B"
DemoBStudents == <<"DemoB Student 1">>

GroupPayloads == {SampleGroup, DemoGroupA, "Ghost"}
StudentPayloads == {SampleStudents[1], SampleStudents[2], DemoAStudents[1]}
BulkPayloads == {"present", "sababsiz"}
ParaPayloads == {"2", "all", "9"}
ModePayloads == {"daily", "weekly", "monthly", "yearly"}
MonthPayloads == {5, 6, 12}
BackupName(n) == <<"db_backup", n>>
CorruptName == <<"corrupt", 0>>
MissingName == <<"missing", 0>>
NoName == <<"", 0>>
RestoreNames == {BackupName(n) : n \in 1..MaxBackups} \cup {CorruptName, MissingName}
LogChatIds == {"-100"}

(***************************************************************************)
(* Python dicts: functions with a finite domain.                           *)
(***************************************************************************)
EmptyDict == [k \in {} |-> None]

DictPut(d, k, v) == [x \in DOMAIN d \cup {k} |-> IF x = k THEN v ELSE d[x]]

DictClear(d, k) == [x \in {} |-> d[x]]

DictKeep(d, k) == d

DictPop(d, k) == [x \in DOMAIN d \ {k} |-> d[x]]

DictGet(d, k, default) == IF k \in DOMAIN d THEN d[k] ELSE default

(***************************************************************************)
(* status_map: an insertion-ordered dict, a sequence of <<student, status>>*)
(***************************************************************************)
SmKeys(sm) == {sm[i][1] : i \in DOMAIN sm}

SmGet(sm, s, default) ==
    IF s \in SmKeys(sm)
    THEN LET i == CHOOSE j \in DOMAIN sm : sm[j][1] = s IN sm[i][2]
    ELSE default

SmSet(sm, s, v) ==
    IF s \in SmKeys(sm)
    THEN [i \in DOMAIN sm |-> IF sm[i][1] = s THEN <<s, v>> ELSE sm[i]]
    ELSE Append(sm, <<s, v>>)

SmAllPresent(students, v) == [i \in DOMAIN students |-> <<students[i], "present">>]

RECURSIVE SmUniform(_, _)
SmUniform(students, v) ==
    IF students = <<>> THEN <<>>
    ELSE SmSet(SmUniform(SubSeq(students, 1, Len(students) - 1), v),
               students[Len(students)], v)

RECURSIVE SmWith(_, _)
SmWith(sm, v) ==
    IF sm = <<>> THEN <<>>
    ELSE (IF sm[1][2] = v THEN <<sm[1][1]>> ELSE <<>>) \o SmWith(Tail(sm), v)

SeqSet(s) == {s[i] : i \in DOMAIN s}

(***************************************************************************)
(* Dates: ordinals of one calendar year; date keys are <<month, day>>.     *)
(***************************************************************************)
DaysInMonth == <<31, 28, 31, 30, 31, 30, 31, 31, 30, 31, 30, 31>>

RECURSIVE MonthStart(_)
MonthStart(m) == IF m = 1 THEN 1 ELSE MonthStart(m - 1) + DaysInMonth[m - 1]

strftime(ord) ==
    LET m == CHOOSE k \in 1..12 :
                 MonthStart(k) <= ord /\ ord < MonthStart(k) + DaysInMonth[k]
    IN <<m, ord - MonthStart(m) + 1>>

strptime(key) == MonthStart(key[1]) + key[2] - 1

StartDay == MonthStart(6) - 1

(***************************************************************************)
(* The persisted document.                                                 *)
(***************************************************************************)
load_db(file) == file

save_db(doc) == doc

get_groups(file) == load_db(file).groups

get_settings(file) == load_db(file).settings

add_group(file, name, students, code) ==
    LET doc == load_db(file) IN
    save_db([doc EXCEPT !.groups = DictPut(@, name, [code |-> code, students |-> students])])

set_log_chat(file, chat_id) ==
    LET doc == load_db(file) IN
    save_db([doc EXCEPT !.settings = DictPut(@, "log_chat_id", chat_id)])

clear_log_chat(file) ==
    LET doc == load_db(file) IN
    save_db([doc EXCEPT !.settings = DictPut(@, "log_chat_id", None)])

RecordAllDay(group, para, status_map, recorder) ==
    [group |-> group, para |-> "all",
     present |-> SmWith(status_map, "present"),
     sababsiz |-> SmWith(status_map, "sababsiz"),
     sababli |-> SmWith(status_map, "sababli"),
     status_map |-> status_map, recorder |-> recorder]

Record(group, para, status_map, recorder) ==
    [group |-> group, para |-> para,
     present |-> SmWith(status_map, "present"),
     sababsiz |-> SmWith(status_map, "sababsiz"),
     sababli |-> SmWith(status_map, "sababli"),
     status_map |-> status_map, recorder |-> recorder]

OverwriteRecords(doc, date_key, rec) ==
    [doc EXCEPT !.attendance = DictPut(@, date_key, <<rec>>)]

AppendTwice(doc, date_key, rec) ==
    [doc EXCEPT !.attendance =
        DictPut(@, date_key, Append(Append(DictGet(@, date_key, <<>>), rec), rec))]

AppendRecord(doc, date_key, rec) ==
    [doc EXCEPT !.attendance =
        DictPut(@, date_key, Append(DictGet(@, date_key, <<>>), rec))]

record_attendance(file, date_key, group, para, status_map, recorder) ==
    save_db(AppendRecord(load_db(file), date_key,
                         Record(group, para, status_map, recorder)))

get_attendance_by_date(file, date_key) ==
    DictGet(load_db(file).attendance, date_key, <<>>)

RECURSIVE RangeFrom(_, _, _)
RangeFromExclusive(attendance, cur, e) ==
    IF cur >= e THEN <<>>
    ELSE DictGet(attendance, strftime(cur), <<>>) \o RangeFrom(attendance, cur + 1, e)

RangeFrom(attendance, cur, e) ==
    IF cur > e THEN <<>>
    ELSE DictGet(attendance, strftime(cur), <<>>) \o RangeFrom(attendance, cur + 1, e)

get_attendance_in_range(file, start_date, end_date) ==
    RangeFrom(load_db(file).attendance, strptime(start_date), strptime(end_date))

InitialDb ==
    add_group([groups |-> EmptyDict, attendance |-> EmptyDict,
               settings |-> [log_chat_id |-> None],
               meta |-> [created |-> strftime(StartDay)]],
              SampleGroup, SampleStudents, "2025")

NumRecords(doc) ==
    LET a == doc.attendance
        RECURSIVE Sum(_)
        Sum(S) == IF S = {} THEN 0
                  ELSE LET k == CHOOSE x \in S : TRUE IN Len(a[k]) + Sum(S \ {k})
    IN Sum(DOMAIN a)

(***************************************************************************)
(* Notices and replies.                                                    *)
(***************************************************************************)
DENY_CALLBACK == "Bu tugma faqat adminlarga ochiq."
DENY_MESSAGE == "Bu bot faqat adminlar uchun. Iltimos, admin bilan bog'laning."
DENY_START == "Bu bot faqat adminlar tomonidan boshqariladi. Iltimos, admin bilan bog'laning."
DENY_ADMINS == "Bu komanda faqat adminlarga."
NO_PROCESS == "Jarayon topilmadi."
NO_STATE == "Holat topilmadi."
NO_GROUP == "Guruh topilmadi."
STATE_MISMATCH == "Holat mos emas."
CANCELLED == "Jarayon bekor qilindi."
NOTHING_TO_CANCEL == "Hech qanday jarayon yo'q."
NO_BACKUP == "Backup topilmadi."
RESTORED == "DB muvaffaqiyatli tiklandi."
RESTORE_FAILED == "DB tiklashda xato yuz berdi."
RESTORE_USAGE == "Foydalanish: /restore_from <backup_filename>"
RAISED == "exception"
OK == "ok"
FOUND == "report"
NOT_FOUND == "davomat topilmadi"

Unparsable == [garbage |-> "not json"]

WorkerFree == \E w \in Workers : w \notin DOMAIN jobs

Logged(act, out) == IF act = "final_confirm" /\ out = OK THEN 1 ELSE 0

Answer(uid, act, arg, out) ==
    /\ steps < MaxSteps
    /\ WorkerFree
    /\ steps' = steps + 1
    /\ last' = [uid |-> uid, act |-> act, arg |-> arg, out |-> out]
    /\ commits' = commits + Logged(act, out)
    /\ UNCHANGED <<today, jobs>>

Render(uid, kb) == screen' = [screen EXCEPT ![uid] = kb]

admin_only_callback(uid, act, arg) ==
    Answer(uid, act, arg, DENY_CALLBACK) /\ UNCHANGED <<TEMP, db, backups, screen>>

admin_only_message(uid, act, arg) ==
    Answer(uid, act, arg, DENY_MESSAGE) /\ UNCHANGED <<TEMP, db, backups, screen>>

HasState(uid) == uid \in DOMAIN TEMP

InFlow(uid, flow) == HasState(uid) /\ TEMP[uid].flow = flow

student_kb_raises(group) == group \notin DOMAIN get_groups(db)

(***************************************************************************)
(* Attendance flow.                                                        *)
(***************************************************************************)
select_group_dropping(uid, group) ==
    LET groups == get_groups(db) IN
    IF group \notin DOMAIN groups
    THEN /\ Answer(uid, "select_group", group, NO_GROUP)
         /\ TEMP' = DictPop(TEMP, uid)
         /\ UNCHANGED <<db, backups, screen>>
    ELSE LET status_map == SmUniform(groups[group].students, "present") IN
         /\ Answer(uid, "select_group", group, OK)
         /\ TEMP' = DictPut(TEMP, uid, [flow |-> "attend", group |-> group,
                                        status_map |-> status_map])
         /\ Render(uid, "student_kb")
         /\ UNCHANGED <<db, backups>>

select_group_attend(uid, group) ==
    LET groups == get_groups(db) IN
    IF group \notin DOMAIN groups
    THEN Answer(uid, "select_group", group, NO_GROUP) /\ UNCHANGED <<TEMP, db, backups, screen>>
    ELSE LET status_map == SmUniform(groups[group].students, "present") IN
         /\ Answer(uid, "select_group", group, OK)
         /\ TEMP' = DictPut(TEMP, uid, [flow |-> "attend", group |-> group,
                                        status_map |-> status_map])
         /\ Render(uid, "student_kb")
         /\ UNCHANGED <<db, backups>>

NextStatusTwoWay(current) == IF current = "present" THEN "sababsiz" ELSE "present"

NextStatus(current) ==
    IF current = "present" THEN "sababsiz"
    ELSE IF current = "sababsiz" THEN "sababli"
    ELSE "present"

ToggleMap(status_map, student) ==
    LET current == SmGet(status_map, student, "present")
        nxt == NextStatus(current)
    IN SmSet(status_map, student, nxt)

toggle_student(uid, student) ==
    IF ~InFlow(uid, "attend")
    THEN Answer(uid, "toggle_student", student, NO_PROCESS) /\ UNCHANGED <<TEMP, db, backups, screen>>
    ELSE LET state == TEMP[uid]
             status_map == ToggleMap(state.status_map, student) IN
         /\ TEMP' = [TEMP EXCEPT ![uid].status_map = status_map]
         /\ IF student_kb_raises(state.group)
            THEN Answer(uid, "toggle_student", student, RAISED) /\ UNCHANGED screen
            ELSE Answer(uid, "toggle_student", student, OK) /\ Render(uid, "student_kb")
         /\ UNCHANGED <<db, backups>>

bulk(uid, action) ==
    IF ~InFlow(uid, "attend")
    THEN Answer(uid, "bulk", action, NO_PROCESS) /\ UNCHANGED <<TEMP, db, backups, screen>>
    ELSE LET group == TEMP[uid].group IN
         IF group \notin DOMAIN get_groups(db)
         THEN Answer(uid, "bulk", action, RAISED) /\ UNCHANGED <<TEMP, db, backups, screen>>
         ELSE LET students == get_groups(db)[group].students
                  status_map == IF action = "present"
                                THEN SmUniform(students, "present")
                                ELSE SmUniform(students, "sababsiz") IN
              /\ Answer(uid, "bulk", action, OK)
              /\ TEMP' = [TEMP EXCEPT ![uid].status_map = status_map]
              /\ Render(uid, "student_kb")
              /\ UNCHANGED <<db, backups>>

confirm_students(uid) ==
    IF ~InFlow(uid, "attend")
    THEN Answer(uid, "confirm_students", None, NO_PROCESS) /\ UNCHANGED <<TEMP, db, backups, screen>>
    ELSE /\ Answer(uid, "confirm_students", None, OK)
         /\ Render(uid, "para_kb")
         /\ UNCHANGED <<TEMP, db, backups>>

show_students(uid, act) ==
    LET state == TEMP[uid] IN
    IF "group" \notin DOMAIN state \/ student_kb_raises(state.group)
    THEN Answer(uid, act, None, RAISED) /\ UNCHANGED <<TEMP, db, backups, screen>>
    ELSE /\ Answer(uid, act, None, OK)
         /\ Render(uid, "student_kb")
         /\ UNCHANGED <<TEMP, db, backups>>

back_students(uid) ==
    IF ~HasState(uid)
    THEN Answer(uid, "back_students", None, NO_STATE) /\ UNCHANGED <<TEMP, db, backups, screen>>
    ELSE show_students(uid, "back_students")

para_label(p) == IF p = "all" THEN <<"Butun kun">> ELSE <<p, "-para">>

para(uid, p) ==
    IF ~InFlow(uid, "attend")
    THEN Answer(uid, "para", p, NO_PROCESS) /\ UNCHANGED <<TEMP, db, backups, screen>>
    ELSE LET state == TEMP[uid]
             preview == [group |-> state.group, soat |-> para_label(p),
                         sana |-> strftime(today),
                         sababsiz |-> SmWith(state.status_map, "sababsiz"),
                         sababli |-> SmWith(state.status_map, "sababli")] IN
         /\ Answer(uid, "para", p, OK)
         /\ TEMP' = [TEMP EXCEPT ![uid] =
                        DictPut(DictPut(state, "selected_para", p), "preview", preview)]
         /\ Render(uid, "final_confirm_kb")
         /\ UNCHANGED <<db, backups>>

final_cancel(uid) ==
    IF HasState(uid)
    THEN show_students(uid, "final_cancel")
    ELSE Answer(uid, "final_cancel", None, NO_PROCESS) /\ UNCHANGED <<TEMP, db, backups, screen>>

back_para_unchecked(uid) ==
    /\ Answer(uid, "back_para", None, OK)
    /\ Render(uid, "para_kb")
    /\ UNCHANGED <<TEMP, db, backups>>

back_para(uid) ==
    IF ~HasState(uid)
    THEN Answer(uid, "back_para", None, NO_PROCESS) /\ UNCHANGED <<TEMP, db, backups, screen>>
    ELSE /\ Answer(uid, "back_para", None, OK)
         /\ Render(uid, "para_kb")
         /\ UNCHANGED <<TEMP, db, backups>>

Recorder(uid) == [id |-> uid]

final_confirm(uid) ==
    IF ~HasState(uid)
    THEN Answer(uid, "final_confirm", None, NO_PROCESS) /\ UNCHANGED <<TEMP, db, backups, screen>>
    ELSE LET state == TEMP[uid] IN
         IF "group" \notin DOMAIN state
         THEN Answer(uid, "final_confirm", None, RAISED) /\ UNCHANGED <<TEMP, db, backups, screen>>
         ELSE /\ Answer(uid, "final_confirm", None, OK)
              /\ NumRecords(db) < MaxRecords
              /\ db' = record_attendance(db, strftime(today), state.group,
                                         DictGet(state, "selected_para", "all"),
                                         state.status_map, Recorder(uid))
              /\ TEMP' = DictPop(TEMP, uid)
              /\ Render(uid, "main_start_kb")
              /\ UNCHANGED backups

(***************************************************************************)
(* Report flow.                                                            *)
(***************************************************************************)
report_type_merging(uid, mode) ==
    /\ Answer(uid, "report", mode, OK)
    /\ TEMP' = DictPut(TEMP, uid,
                       DictPut(DictPut(DictGet(TEMP, uid, EmptyDict), "flow", "report"),
                               "mode", mode))
    /\ Render(uid, "group_kb")
    /\ UNCHANGED <<db, backups>>

report_type(uid, mode) ==
    /\ Answer(uid, "report", mode, OK)
    /\ TEMP' = DictPut(TEMP, uid, [flow |-> "report", mode |-> mode])
    /\ Render(uid, "group_kb")
    /\ UNCHANGED <<db, backups>>

RECURSIVE FilterGroup(_, _)
FilterGroup(arr, group) ==
    IF arr = <<>> THEN <<>>
    ELSE (IF arr[1].group = group THEN <<arr[1]>> ELSE <<>>) \o FilterGroup(Tail(arr), group)

ShowReport(uid, act, arg, arr_group) ==
    /\ Answer(uid, act, arg, IF arr_group = <<>> THEN NOT_FOUND ELSE FOUND)
    /\ TEMP' = DictPop(TEMP, uid)
    /\ Render(uid, "none")
    /\ UNCHANGED <<db, backups>>

month_range(month_idx) ==
    <<MonthStart(month_idx),
      IF month_idx = 12 THEN MonthStart(12) + 30 ELSE MonthStart(month_idx + 1) - 1>>

month(uid, month_idx) ==
    IF ~(InFlow(uid, "report") /\ DictGet(TEMP[uid], "mode", None) = "monthly")
    THEN Answer(uid, "month", month_idx, STATE_MISMATCH) /\ UNCHANGED <<TEMP, db, backups, screen>>
    ELSE IF month_idx \notin 1..12
    THEN Answer(uid, "month", month_idx, RAISED) /\ UNCHANGED <<TEMP, db, backups, screen>>
    ELSE LET group == DictGet(TEMP[uid], "group_for_report", None)
             r == month_range(month_idx)
             arr == get_attendance_in_range(db, strftime(r[1]), strftime(r[2])) IN
         ShowReport(uid, "month", month_idx, FilterGroup(arr, group))

select_group_report(uid, group) ==
    IF ~InFlow(uid, "report")
    THEN Answer(uid, "select_group", group, "ignored") /\ UNCHANGED <<TEMP, db, backups, screen>>
    ELSE LET mode == DictGet(TEMP[uid], "mode", None) IN
         IF mode = "daily"
         THEN ShowReport(uid, "select_group", group,
                         FilterGroup(get_attendance_by_date(db, strftime(today)), group))
         ELSE IF mode = "weekly"
         THEN ShowReport(uid, "select_group", group,
                         FilterGroup(get_attendance_in_range(db, strftime(today - 6),
                                                             strftime(today)), group))
         ELSE IF mode = "monthly"
         THEN /\ Answer(uid, "select_group", group, OK)
              /\ TEMP' = [TEMP EXCEPT ![uid] = DictPut(@, "group_for_report", group)]
              /\ Render(uid, "month_kb")
              /\ UNCHANGED <<db, backups>>
         ELSE IF mode = "yearly"
         THEN ShowReport(uid, "select_group", group,
                         FilterGroup(get_attendance_in_range(db, <<1, 1>>, <<12, 31>>), group))
         ELSE Answer(uid, "select_group", group, OK) /\ UNCHANGED <<TEMP, db, backups, screen>>

(***************************************************************************)
(* Callback handlers, in the order telebot registered them. telebot runs   *)
(* the first handler whose filter accepts the callback data, and no other. *)
(***************************************************************************)
CallbackHandlers ==
    << [name |-> "cb_help", route |-> "menu_help"],
       [name |-> "cb_menu_davomat", route |-> "menu_davomat"],
       [name |-> "cb_select_group", route |-> "select_group"],
       [name |-> "cb_back_groups", route |-> "back_groups"],
       [name |-> "cb_toggle_student", route |-> "toggle_student"],
       [name |-> "cb_bulk", route |-> "bulk"],
       [name |-> "cb_confirm_students", route |-> "confirm_students"],
       [name |-> "cb_back_students", route |-> "back_students"],
       [name |-> "cb_para", route |-> "para"],
       [name |-> "cb_final_cancel", route |-> "final_cancel"],
       [name |-> "cb_back_para", route |-> "back_para"],
       [name |-> "cb_final_confirm", route |-> "final_confirm"],
       [name |-> "cb_menu_reports", route |-> "menu_reports"],
       [name |-> "cb_report_type", route |-> "report"],
       [name |-> "cb_back_reports", route |-> "back_reports"],
       [name |-> "cb_month", route |-> "month"],
       [name |-> "cb_select_group_report", route |-> "select_group"] >>

Matching(route) == {i \in DOMAIN CallbackHandlers : CallbackHandlers[i].route = route}

FirstMatch(route) ==
    CallbackHandlers[CHOOSE i \in Matching(route) : \A j \in Matching(route) : i <= j].name

ShowMenu(uid, act, kb) ==
    /\ Answer(uid, act, None, OK)
    /\ Render(uid, kb)
    /\ UNCHANGED <<TEMP, db, backups>>

cb_help(uid) ==
    IF ~is_admin(uid)
    THEN admin_only_callback(uid, "menu_help", None)
    ELSE ShowMenu(uid, "menu_help", "main_start_kb")

cb_menu_davomat(uid) ==
    IF ~is_admin(uid)
    THEN admin_only_callback(uid, "menu_davomat", None)
    ELSE ShowMenu(uid, "menu_davomat", "group_kb")

cb_select_group(uid, group) ==
    IF ~is_admin(uid)
    THEN admin_only_callback(uid, "select_group", group)
    ELSE select_group_attend(uid, group)

cb_back_groups(uid) ==
    IF ~is_admin(uid)
    THEN admin_only_callback(uid, "back_groups", None)
    ELSE ShowMenu(uid, "back_groups", "group_kb")

cb_toggle_student(uid, student) ==
    IF ~is_admin(uid)
    THEN admin_only_callback(uid, "toggle_student", student)
    ELSE toggle_student(uid, student)

cb_bulk(uid, action) ==
    IF ~is_admin(uid)
    THEN admin_only_callback(uid, "bulk", action)
    ELSE bulk(uid, action)

cb_confirm_students(uid) ==
    IF ~is_admin(uid)
    THEN admin_only_callback(uid, "confirm_students", None)
    ELSE confirm_students(uid)

cb_back_students(uid) ==
    IF ~is_admin(uid)
    THEN admin_only_callback(uid, "back_students", None)
    ELSE back_students(uid)

cb_para(uid, p) ==
    IF ~is_admin(uid)
    THEN admin_only_callback(uid, "para", p)
    ELSE para(uid, p)

cb_final_cancel(uid) ==
    IF ~is_admin(uid)
    THEN admin_only_callback(uid, "final_cancel", None)
    ELSE final_cancel(uid)

cb_back_para(uid) ==
    IF ~is_admin(uid)
    THEN admin_only_callback(uid, "back_para", None)
    ELSE back_para(uid)

cb_final_confirm(uid) ==
    IF ~is_admin(uid)
    THEN admin_only_callback(uid, "final_confirm", None)
    ELSE final_confirm(uid)

cb_menu_reports(uid) ==
    IF ~is_admin(uid)
    THEN admin_only_callback(uid, "menu_reports", None)
    ELSE ShowMenu(uid, "menu_reports", "reports_kb")

cb_report_type(uid, mode) ==
    IF ~is_admin(uid)
    THEN admin_only_callback(uid, "report", mode)
    ELSE report_type(uid, mode)

cb_back_reports(uid) ==
    IF ~is_admin(uid)
    THEN admin_only_callback(uid, "back_reports", None)
    ELSE ShowMenu(uid, "back_reports", "reports_kb")

cb_month(uid, month_idx) ==
    IF ~is_admin(uid)
    THEN admin_only_callback(uid, "month", month_idx)
    ELSE month(uid, month_idx)

cb_select_group_report(uid, group) ==
    IF ~is_admin(uid)
    THEN admin_only_callback(uid, "select_group", group)
    ELSE select_group_report(uid, group)

SelectGroup(uid, group) ==
    IF FirstMatch("select_group") = "cb_select_group"
    THEN cb_select_group(uid, group)
    ELSE cb_select_group_report(uid, group)

(***************************************************************************)
(* Commands.                                                               *)
(***************************************************************************)
Reply(uid, act, arg, out) ==
    Answer(uid, act, arg, out) /\ UNCHANGED <<TEMP, db, backups, screen>>

cmd_start(uid) ==
    IF is_admin(uid)
    THEN ShowMenu(uid, "start", "main_start_kb")
    ELSE Reply(uid, "start", None, DENY_START)

cmd_set_log_chat(uid, chat_id) ==
    IF ~is_admin(uid)
    THEN admin_only_message(uid, "set_log_chat", chat_id)
    ELSE IF chat_id = None
        THEN Reply(uid, "set_log_chat", chat_id, "usage")
        ELSE /\ Answer(uid, "set_log_chat", chat_id, OK)
             /\ db' = set_log_chat(db, chat_id)
             /\ UNCHANGED <<TEMP, backups, screen>>

cmd_get_log_chat(uid) ==
    IF ~is_admin(uid)
    THEN admin_only_message(uid, "get_log_chat", None)
    ELSE Reply(uid, "get_log_chat", None, OK)

cmd_clear_log_chat(uid) ==
    IF ~is_admin(uid)
    THEN admin_only_message(uid, "clear_log_chat", None)
    ELSE /\ Answer(uid, "clear_log_chat", None, OK)
         /\ db' = clear_log_chat(db)
         /\ UNCHANGED <<TEMP, backups, screen>>

BackupsMade == {n \in 1..MaxBackups : BackupName(n) \in DOMAIN backups}

backup_db_initial(dir, file) ==
    DictPut(dir, BackupName(Cardinality(BackupsMade) + 1), InitialDb)

backup_db(dir, file) == DictPut(dir, BackupName(Cardinality(BackupsMade) + 1), file)

cmd_backup(uid) ==
    IF ~is_admin(uid)
    THEN admin_only_message(uid, "backup", None)
    ELSE /\ Answer(uid, "backup", None, OK)
         /\ Cardinality(BackupsMade) < MaxBackups
         /\ backups' = backup_db(backups, db)
         /\ UNCHANGED <<TEMP, db, screen>>

restore_ok(dir, path) == dir[path] # Unparsable

restore_db_unchecked(dir, file, path) == save_db(dir[path])

restore_db(dir, file, path) == IF restore_ok(dir, path) THEN save_db(dir[path]) ELSE file

cmd_restore_from(uid, fname) ==
    IF ~is_admin(uid)
    THEN admin_only_message(uid, "restore_from", fname)
    ELSE IF fname = NoName
        THEN Reply(uid, "restore_from", fname, RESTORE_USAGE)
        ELSE IF fname \notin DOMAIN backups
        THEN Reply(uid, "restore_from", fname, NO_BACKUP)
        ELSE /\ Answer(uid, "restore_from", fname,
                       IF restore_ok(backups, fname) THEN RESTORED ELSE RESTORE_FAILED)
             /\ db' = restore_db(backups, db, fname)
             /\ UNCHANGED <<TEMP, backups, screen>>

cmd_sample(uid) ==
    IF ~is_admin(uid)
    THEN admin_only_message(uid, "sample", None)
    ELSE /\ Answer(uid, "sample", None, OK)
         /\ db' = add_group(add_group(db, DemoGroupA, DemoAStudents, "1111"),
                            DemoGroupB, DemoBStudents, "2222")
         /\ UNCHANGED <<TEMP, backups, screen>>

cmd_list_groups(uid) ==
    IF ~is_admin(uid)
    THEN admin_only_message(uid, "list_groups", None)
    ELSE Reply(uid, "list_groups", None, OK)

cmd_cancel(uid) ==
    IF uid \in DOMAIN TEMP
    THEN /\ Answer(uid, "cancel", None, CANCELLED)
         /\ TEMP' = DictPop(TEMP, uid)
         /\ UNCHANGED <<db, backups, screen>>
    ELSE Reply(uid, "cancel", None, NOTHING_TO_CANCEL)

cmd_admins(uid) ==
    IF ~is_admin(uid)
    THEN Reply(uid, "admins", None, DENY_ADMINS)
    ELSE Reply(uid, "admins", None, OK)

fallback(uid) ==
    IF is_admin(uid)
    THEN ShowMenu(uid, "fallback", "main_start_kb")
    ELSE Reply(uid, "fallback", None, DENY_MESSAGE)

Tick ==
    /\ steps < MaxSteps
    /\ steps' = steps + 1
    /\ today' = today + 1
    /\ UNCHANGED <<TEMP, db, backups, screen, last, jobs, commits>>

(***************************************************************************)
(* The specification: one update handled at a time.                        *)
(***************************************************************************)
Init ==
    /\ TEMP = EmptyDict
    /\ db = InitialDb
    /\ backups = DictPut(EmptyDict, CorruptName, Unparsable)
    /\ screen = [u \in Users |-> "none"]
    /\ today = StartDay
    /\ last = [uid |-> 0, act |-> "init", arg |-> None, out |-> OK]
    /\ jobs = EmptyDict
    /\ steps = 0
    /\ commits = 0

Next ==
    \/ \E uid \in Users : cb_help(uid)
    \/ \E uid \in Users : cb_menu_davomat(uid)
    \/ \E uid \in Users, g \in GroupPayloads : SelectGroup(uid, g)
    \/ \E uid \in Users : cb_back_groups(uid)
    \/ \E uid \in Users, s \in StudentPayloads : cb_toggle_student(uid, s)
    \/ \E uid \in Users, a \in BulkPayloads : cb_bulk(uid, a)
    \/ \E uid \in Users : cb_confirm_students(uid)
    \/ \E uid \in Users : cb_back_students(uid)
    \/ \E uid \in Users, p \in ParaPayloads : cb_para(uid, p)
    \/ \E uid \in Users : cb_final_cancel(uid)
    \/ \E uid \in Users : cb_back_para(uid)
    \/ \E uid \in Users : cb_final_confirm(uid)
    \/ \E uid \in Users : cb_menu_reports(uid)
    \/ \E uid \in Users, m \in ModePayloads : cb_report_type(uid, m)
    \/ \E uid \in Users : cb_back_reports(uid)
    \/ \E uid \in Users, i \in MonthPayloads : cb_month(uid, i)
    \/ \E uid \in Users : cmd_start(uid)
    \/ \E uid \in Users, c \in LogChatIds \cup {None} : cmd_set_log_chat(uid, c)
    \/ \E uid \in Users : cmd_get_log_chat(uid)
    \/ \E uid \in Users : cmd_clear_log_chat(uid)
    \/ \E uid \in Users : cmd_backup(uid)
    \/ \E uid \in Users, f \in RestoreNames \cup {NoName} : cmd_restore_from(uid, f)
    \/ \E uid \in Users : cmd_sample(uid)
    \/ \E uid \in Users : cmd_list_groups(uid)
    \/ \E uid \in Users : cmd_cancel(uid)
    \/ \E uid \in Users : cmd_admins(uid)
    \/ \E uid \in Users : fallback(uid)
    \/ Tick

Spec == Init /\ [][Next]_vars

(***************************************************************************)
(* Concurrent document writers. telebot hands each update to one of its    *)
(* worker threads; a writer loads the document, changes its own copy and   *)
(* saves the copy. jobs holds the writers between their load and save.     *)
(***************************************************************************)
Apply(doc, upd) ==
    IF upd.op = "record_attendance"
    THEN AppendRecord(doc, upd.date_key, upd.rec)
    ELSE [doc EXCEPT !.settings = DictPut(@, "log_chat_id", upd.chat_id)]

reloaded_db(job, file) == load_db(file)

local_db(job, file) == job.doc

BeginWrite(w, uid, act, upd) ==
    /\ steps < MaxConcSteps
    /\ w \notin DOMAIN jobs
    /\ is_admin(uid)
    /\ jobs' = DictPut(jobs, w, [uid |-> uid, act |-> act, doc |-> load_db(db), upd |-> upd])
    /\ steps' = steps + 1
    /\ UNCHANGED <<TEMP, db, backups, screen, today, last, commits>>

BeginFinalConfirm(w, uid) ==
    /\ HasState(uid)
    /\ "group" \in DOMAIN TEMP[uid]
    /\ BeginWrite(w, uid, "final_confirm",
                  [op |-> "record_attendance", date_key |-> strftime(today),
                   rec |-> Record(TEMP[uid].group,
                                  DictGet(TEMP[uid], "selected_para", "all"),
                                  TEMP[uid].status_map, Recorder(uid))])

BeginSetLogChat(w, uid, chat_id) ==
    /\ chat_id # None
    /\ BeginWrite(w, uid, "set_log_chat", [op |-> "set_log_chat", chat_id |-> chat_id])

FinishWrite(w) ==
    /\ w \in DOMAIN jobs
    /\ LET job == jobs[w] IN
       /\ db' = save_db(Apply(local_db(job, db), job.upd))
       /\ IF job.act = "final_confirm"
          THEN TEMP' = DictPop(TEMP, job.uid) /\ Render(job.uid, "main_start_kb")
          ELSE UNCHANGED <<TEMP, screen>>
       /\ last' = [uid |-> job.uid, act |-> job.act, arg |-> None, out |-> OK]
       /\ commits' = commits + Logged(job.act, OK)
    /\ jobs' = DictPop(jobs, w)
    /\ UNCHANGED <<backups, today, steps>>

NextConc ==
    \/ \E uid \in ADMIN_IDS, g \in GroupPayloads : SelectGroup(uid, g)
    \/ \E uid \in ADMIN_IDS : cmd_sample(uid)
    \/ \E w \in Workers, uid \in ADMIN_IDS : BeginFinalConfirm(w, uid)
    \/ \E w \in Workers, uid \in ADMIN_IDS, c \in LogChatIds : BeginSetLogChat(w, uid, c)
    \/ \E w \in Workers : FinishWrite(w)

SpecConc == Init /\ [][NextConc]_vars

(***************************************************************************)
(* save_db opens the file with mode "w", which empties it, and json.dump   *)
(* then writes the text piece by piece. SpecSave shows the file between    *)
(* those steps: to a load on the other worker thread, and to the next      *)
(* start of the process when the process dies before the write is done.    *)
(***************************************************************************)
EmptyFile == [text |-> "empty"]

PartialFile == [text |-> "partial"]

IsDocument(file) == "groups" \in DOMAIN file

Saving(w) == w \in DOMAIN jobs /\ "phase" \in DOMAIN jobs[w]

LoadForSetLogChat(w, uid, chat_id) ==
    /\ IsDocument(db)
    /\ BeginSetLogChat(w, uid, chat_id)

LoadForFinalConfirm(w, uid) ==
    /\ IsDocument(db)
    /\ BeginFinalConfirm(w, uid)

SaveSelectGroup(uid, group) ==
    /\ IsDocument(db)
    /\ SelectGroup(uid, group)

OpenForWrite(w) ==
    /\ w \in DOMAIN jobs
    /\ ~Saving(w)
    /\ db' = EmptyFile
    /\ jobs' = [jobs EXCEPT ![w] = DictPut(@, "phase", "open")]
    /\ UNCHANGED <<TEMP, backups, screen, today, last, steps, commits>>

WriteChunk(w) ==
    /\ Saving(w)
    /\ jobs[w].phase = "open"
    /\ db' = PartialFile
    /\ jobs' = [jobs EXCEPT ![w].phase = "dump"]
    /\ UNCHANGED <<TEMP, backups, screen, today, last, steps, commits>>

CloseWrite(w) ==
    /\ Saving(w)
    /\ jobs[w].phase = "dump"
    /\ FinishWrite(w)

\* json.load of load_db raises on a file that holds no complete document.
LoadDuringSave(uid) ==
    /\ ~IsDocument(db)
    /\ is_admin(uid)
    /\ Reply(uid, "get_log_chat", None, RAISED)

\* The process dies inside save_db: memory is lost, the file stays as it is.
Crash ==
    /\ \E w \in Workers : Saving(w)
    /\ TEMP' = EmptyDict
    /\ jobs' = EmptyDict
    /\ UNCHANGED <<db, backups, screen, today, last, steps, commits>>

NextSave ==
    \/ \E uid \in ADMIN_IDS, g \in GroupPayloads : SaveSelectGroup(uid, g)
    \/ \E w \in Workers, uid \in ADMIN_IDS : LoadForFinalConfirm(w, uid)
    \/ \E w \in Workers, uid \in ADMIN_IDS, c \in LogChatIds : LoadForSetLogChat(w, uid, c)
    \/ \E w \in Workers : OpenForWrite(w)
    \/ \E w \in Workers : WriteChunk(w)
    \/ \E w \in Workers : CloseWrite(w)
    \/ \E uid \in ADMIN_IDS : LoadDuringSave(uid)
    \/ Crash

SpecSave == Init /\ [][NextSave]_vars

(***************************************************************************)
(* The callback codec. A string is a sequence of characters; str.replace   *)
(* scans from the left and replaces the occurrences that do not overlap.   *)
(* SpecCodec sends one string through encode_cb, as student_kb and         *)
(* group_kb do for a button, and through decode_cb, as the handler of the  *)
(* button does.                                                            *)
(***************************************************************************)
MaxCbLen == 3

CbAlphabet == {"%", " ", "\n", "_", "~", "n", "l"}

RECURSIVE Replace(_, _, _)
Replace(s, old, new) ==
    IF Len(s) < Len(old) THEN s
    ELSE IF SubSeq(s, 1, Len(old)) = old
    THEN new \o Replace(SubSeq(s, Len(old) + 1, Len(s)), old, new)
    ELSE <<s[1]>> \o Replace(Tail(s), old, new)

encode_cb(s) ==
    Replace(Replace(Replace(s, <<"%">>, <<"%", "%">>),
                    <<" ">>, <<"_", "~", "_">>),
            <<"\n">>, <<"_", "_", "n", "l", "_", "_">>)

decode_cb(s) ==
    Replace(Replace(Replace(s, <<"_", "_", "n", "l", "_", "_">>, <<"\n">>),
                    <<"_", "~", "_">>, <<" ">>),
            <<"%", "%">>, <<"%">>)

CbStrings ==
    UNION {[1..n -> CbAlphabet] : n \in 0..MaxCbLen}
        \cup {<<"_", "_", "n", "l", "_", "_">>, <<"%", "%", "_", "~", "_">>}

InitCodec ==
    /\ TEMP = EmptyDict
    /\ db = InitialDb
    /\ backups = EmptyDict
    /\ screen = [u \in Users |-> "none"]
    /\ today = StartDay
    /\ \E s \in CbStrings : last = [uid |-> 0, act |-> "button", arg |-> s, out |-> s]
    /\ jobs = EmptyDict
    /\ steps = 0
    /\ commits = 0

EncodeCb ==
    /\ last.act = "button"
    /\ last' = [last EXCEPT !.act = "encode_cb", !.out = encode_cb(last.arg)]
    /\ UNCHANGED <<TEMP, db, backups, screen, today, jobs, steps, commits>>

DecodeCb ==
    /\ last.act = "encode_cb"
    /\ last' = [last EXCEPT !.act = "decode_cb", !.out = decode_cb(last.out)]
    /\ UNCHANGED <<TEMP, db, backups, screen, today, jobs, steps, commits>>

NextCodec == EncodeCb \/ DecodeCb

SpecCodec == InitCodec /\ [][NextCodec]_vars

(***************************************************************************)
(* The attendance flow from the student list on: SpecFlow starts where     *)
(* operator 1 has selected the sample group (the state select_group leaves)*)
(* and runs the handlers of the flow's buttons.                            *)
(***************************************************************************)
FlowOperator == CHOOSE uid \in ADMIN_IDS : \A other \in ADMIN_IDS : uid <= other

InitFlow ==
    /\ TEMP = DictPut(EmptyDict, FlowOperator,
                      [flow |-> "attend", group |-> SampleGroup,
                       status_map |-> SmUniform(get_groups(InitialDb)[SampleGroup].students,
                                                "present")])
    /\ db = InitialDb
    /\ backups = DictPut(EmptyDict, CorruptName, Unparsable)
    /\ screen = [u \in Users |-> IF u = FlowOperator THEN "student_kb" ELSE "none"]
    /\ today = StartDay
    /\ last = [uid |-> FlowOperator, act |-> "select_group", arg |-> SampleGroup, out |-> OK]
    /\ jobs = EmptyDict
    /\ steps = 0
    /\ commits = 0

NextFlow ==
    \/ \E uid \in ADMIN_IDS, s \in StudentPayloads : cb_toggle_student(uid, s)
    \/ \E uid \in ADMIN_IDS, a \in BulkPayloads : cb_bulk(uid, a)
    \/ \E uid \in ADMIN_IDS : cb_confirm_students(uid)
    \/ \E uid \in ADMIN_IDS : cb_back_students(uid)
    \/ \E uid \in ADMIN_IDS, p \in ParaPayloads : cb_para(uid, p)
    \/ \E uid \in ADMIN_IDS : cb_final_cancel(uid)
    \/ \E uid \in ADMIN_IDS : cb_back_para(uid)
    \/ \E uid \in ADMIN_IDS : cb_final_confirm(uid)
    \/ Tick

SpecFlow == InitFlow /\ [][NextFlow]_vars

(***************************************************************************)
(* The range query. SpecRange fills the document with records on several   *)
(* days, as final confirms on those days do, and runs                      *)
(* get_attendance_in_range on it for the windows of QueryDates.            *)
(***************************************************************************)
QueryDates == {<<5, 30>>, <<5, 31>>, <<6, 1>>, <<6, 2>>}

RecordToday(uid, group, p) ==
    /\ NumRecords(db) < MaxRecords
    /\ group \in DOMAIN get_groups(db)
    /\ db' = record_attendance(db, strftime(today), group, p,
                               SmUniform(get_groups(db)[group].students, "present"),
                               Recorder(uid))
    /\ commits' = commits + 1
    /\ UNCHANGED <<TEMP, backups, screen, today, last, jobs, steps>>

RangeQuery(start_date, end_date) ==
    /\ last' = [uid |-> 0, act |-> "get_attendance_in_range",
                arg |-> <<start_date, end_date>>,
                out |-> get_attendance_in_range(db, start_date, end_date)]
    /\ UNCHANGED <<TEMP, db, backups, screen, today, jobs, steps, commits>>

NextRange ==
    \/ \E p \in {"2", "all"} : RecordToday(FlowOperator, SampleGroup, p)
    \/ Tick
    \/ \E s \in QueryDates, e \in QueryDates : RangeQuery(s, e)

SpecRange == Init /\ [][NextRange]_vars

(***************************************************************************)
(* Reports over a document that holds records. SpecReport lets records be  *)
(* committed on the days that pass and runs the report buttons: the report *)
(* type, the group, the month.                                             *)
(***************************************************************************)
month_kb == <<1, 2, 3, 4, 5, 9, 10, 11, 12>>

NextReport ==
    \/ \E p \in {"2", "all"} : RecordToday(FlowOperator, SampleGroup, p)
    \/ Tick
    \/ \E uid \in ADMIN_IDS, m \in ModePayloads : cb_report_type(uid, m)
    \/ \E uid \in ADMIN_IDS, g \in GroupPayloads : SelectGroup(uid, g)
    \/ \E uid \in ADMIN_IDS, i \in MonthPayloads : cb_month(uid, i)

SpecReport == Init /\ [][NextReport]_vars

(***************************************************************************)
(* The document under the operations that write it. SpecStore starts where *)
(* SpecFlow starts and runs the final confirm together with the group,     *)
(* settings, backup and restore commands and the report buttons.           *)
(***************************************************************************)
NextStore ==
    \/ \E uid \in ADMIN_IDS : cb_final_confirm(uid)
    \/ \E uid \in ADMIN_IDS, g \in GroupPayloads : SelectGroup(uid, g)
    \/ \E uid \in ADMIN_IDS : cmd_backup(uid)
    \/ \E uid \in ADMIN_IDS, f \in RestoreNames : cmd_restore_from(uid, f)
    \/ \E uid \in ADMIN_IDS, c \in LogChatIds : cmd_set_log_chat(uid, c)
    \/ \E uid \in ADMIN_IDS : cmd_clear_log_chat(uid)
    \/ \E uid \in ADMIN_IDS : cmd_sample(uid)
    \/ \E uid \in ADMIN_IDS, m \in ModePayloads : cb_report_type(uid, m)
    \/ Tick

SpecStore == InitFlow /\ [][NextStore]_vars

(***************************************************************************)
(* Sessions. SpecSession starts where SpecFlow starts and runs every       *)
(* handler that reads or writes the session map TEMP, for both operators:  *)
(* the buttons of the attendance flow and of the report flow and the       *)
(* cancel command.                                                         *)
(***************************************************************************)
NextSession ==
    \/ \E uid \in ADMIN_IDS, g \in GroupPayloads : SelectGroup(uid, g)
    \/ \E uid \in ADMIN_IDS, s \in StudentPayloads : cb_toggle_student(uid, s)
    \/ \E uid \in ADMIN_IDS, a \in BulkPayloads : cb_bulk(uid, a)
    \/ \E uid \in ADMIN_IDS : cb_confirm_students(uid)
    \/ \E uid \in ADMIN_IDS : cb_back_students(uid)
    \/ \E uid \in ADMIN_IDS, p \in ParaPayloads : cb_para(uid, p)
    \/ \E uid \in ADMIN_IDS : cb_final_cancel(uid)
    \/ \E uid \in ADMIN_IDS : cb_back_para(uid)
    \/ \E uid \in ADMIN_IDS : cb_final_confirm(uid)
    \/ \E uid \in ADMIN_IDS, m \in ModePayloads : cb_report_type(uid, m)
    \/ \E uid \in ADMIN_IDS, i \in MonthPayloads : cb_month(uid, i)
    \/ \E uid \in ADMIN_IDS : cmd_cancel(uid)
    \/ Tick

SpecSession == InitFlow /\ [][NextSession]_vars

(***************************************************************************)
(* Navigation in the attendance flow while the document is restored.       *)
(* SpecNav starts in the state that /backup, /sample and the select-group  *)
(* of a sample-made group leave: the snapshot holds the document without   *)
(* the sample-made groups, the document holds them, and operator 1 marks   *)
(* attendance for one of them. It runs the buttons of the flow and         *)
(* /restore_from.                                                          *)
(***************************************************************************)
InitNav ==
    LET sampled == add_group(add_group(InitialDb, DemoGroupA, DemoAStudents, "1111"),
                             DemoGroupB, DemoBStudents, "2222") IN
    /\ TEMP = DictPut(EmptyDict, FlowOperator,
                      [flow |-> "attend", group |-> DemoGroupA,
                       status_map |-> SmUniform(DemoAStudents, "present")])
    /\ db = sampled
    /\ backups = DictPut(DictPut(EmptyDict, CorruptName, Unparsable),
                         BackupName(1), InitialDb)
    /\ screen = [u \in Users |-> IF u = FlowOperator THEN "student_kb" ELSE "none"]
    /\ today = StartDay
    /\ last = [uid |-> FlowOperator, act |-> "select_group", arg |-> DemoGroupA, out |-> OK]
    /\ jobs = EmptyDict
    /\ steps = 0
    /\ commits = 0

NextNav ==
    \/ \E uid \in ADMIN_IDS, s \in StudentPayloads : cb_toggle_student(uid, s)
    \/ \E uid \in ADMIN_IDS : cb_confirm_students(uid)
    \/ \E uid \in ADMIN_IDS : cb_back_students(uid)
    \/ \E uid \in ADMIN_IDS, p \in ParaPayloads : cb_para(uid, p)
    \/ \E uid \in ADMIN_IDS : cb_final_cancel(uid)
    \/ \E uid \in ADMIN_IDS : cb_back_para(uid)
    \/ \E uid \in ADMIN_IDS, f \in RestoreNames : cmd_restore_from(uid, f)

SpecNav == InitNav /\ [][NextNav]_vars

(***************************************************************************)
(* The final confirm on two worker threads. cb_final_confirm reads the     *)
(* session, record_attendance loads and saves the document, the summary is *)
(* sent, and only then is the session removed. SpecDouble keeps the save   *)
(* and the removal apart, so that a second final confirm of the same       *)
(* operator can start on the other worker between them.                    *)
(***************************************************************************)
SaveRecord(w) ==
    /\ w \in DOMAIN jobs
    /\ "saved" \notin DOMAIN jobs[w]
    /\ db' = save_db(Apply(local_db(jobs[w], db), jobs[w].upd))
    /\ jobs' = [jobs EXCEPT ![w] = DictPut(@, "saved", TRUE)]
    /\ last' = [uid |-> jobs[w].uid, act |-> jobs[w].act, arg |-> None, out |-> OK]
    /\ commits' = commits + Logged(jobs[w].act, OK)
    /\ UNCHANGED <<TEMP, backups, screen, today, steps>>

PopSession(w) ==
    /\ w \in DOMAIN jobs
    /\ "saved" \in DOMAIN jobs[w]
    /\ TEMP' = DictPop(TEMP, jobs[w].uid)
    /\ Render(jobs[w].uid, "main_start_kb")
    /\ jobs' = DictPop(jobs, w)
    /\ UNCHANGED <<db, backups, today, last, steps, commits>>

NextDouble ==
    \/ \E uid \in ADMIN_IDS, g \in GroupPayloads : SelectGroup(uid, g)
    \/ \E uid \in ADMIN_IDS, s \in StudentPayloads : cb_toggle_student(uid, s)
    \/ \E w \in Workers, uid \in ADMIN_IDS : BeginFinalConfirm(w, uid)
    \/ \E w \in Workers : SaveRecord(w)
    \/ \E w \in Workers : PopSession(w)

SpecDouble == InitFlow /\ [][NextDouble]_vars

(***************************************************************************)
(* Vocabulary of the properties.                                           *)
(***************************************************************************)
\* A handler ran to completion for uid's update act in this step.
Handled(uid, act) ==
    /\ steps' = steps + 1
    /\ today' = today
    /\ jobs' = jobs
    /\ last'.uid = uid
    /\ last'.act = act

\* The writer of worker w saved its copy in this step.
Finishes(w) == w \in DOMAIN jobs /\ w \notin DOMAIN jobs'

\* The stage of the attendance flow the operator is looking at.
Stage(uid) ==
    IF ~HasState(uid) THEN "NoSession"
    ELSE IF TEMP[uid].flow # "attend" THEN "Report"
    ELSE IF screen[uid] = "student_kb" THEN "GroupSelected"
    ELSE IF screen[uid] = "para_kb" THEN "PeriodSelection"
    ELSE IF screen[uid] = "final_confirm_kb" THEN "PreviewConfirm"
    ELSE "Elsewhere"

Disjoint(a, b) == SeqSet(a) \cap SeqSet(b) = {}

RecordsOn(doc, date_key) == DictGet(doc.attendance, date_key, <<>>)

FlowActions ==
    {"toggle_student", "bulk", "confirm_students", "para", "back_students",
     "back_para", "final_cancel", "final_confirm"}

Commands ==
    {"start", "cancel", "list_groups", "sample", "get_log_chat", "set_log_chat",
     "clear_log_chat", "backup", "restore_from", "admins"}

DenialNotices == {DENY_MESSAGE, DENY_START, DENY_ADMINS}

(***************************************************************************)
(* C1: the three lists of every record committed by a final confirm are    *)
(* pairwise disjoint and their union is exactly the student set of the     *)
(* record's group at the moment of the commit.                             *)
(***************************************************************************)
C1_RecordPartitionsGroup ==
    [][\A uid \in Users :
        (Handled(uid, "final_confirm") /\ last'.out = OK) =>
            LET recs == RecordsOn(db', strftime(today))
                r == recs[Len(recs)]
            IN /\ r.group \in DOMAIN get_groups(db)
               /\ Disjoint(r.present, r.sababsiz)
               /\ Disjoint(r.present, r.sababli)
               /\ Disjoint(r.sababsiz, r.sababli)
               /\ SeqSet(r.present) \cup SeqSet(r.sababsiz) \cup SeqSet(r.sababli)
                    = SeqSet(get_groups(db)[r.group].students)]_vars

(***************************************************************************)
(* C2: in a report session of mode daily, weekly or yearly, select-group   *)
(* of an existing group runs the report and leaves the operator without a  *)
(* session.                                                                *)
(***************************************************************************)
C2_ReportSelectGroupRunsQuery ==
    [][\A uid \in ADMIN_IDS :
        (/\ InFlow(uid, "report")
         /\ DictGet(TEMP[uid], "mode", None) \in {"daily", "weekly", "yearly"}
         /\ Handled(uid, "select_group")
         /\ last'.arg \in DOMAIN get_groups(db))
        => (last'.out \in {FOUND, NOT_FOUND} /\ uid \notin DOMAIN TEMP')]_vars

(***************************************************************************)
(* C3: in a report session of mode monthly, select-group of an existing    *)
(* group g keeps the monthly report session and stores g as its group; a   *)
(* following select-month runs the query and leaves no session.            *)
(***************************************************************************)
C3_MonthlySelectGroupThenMonth ==
    [][\A uid \in ADMIN_IDS :
        /\ (/\ InFlow(uid, "report")
            /\ DictGet(TEMP[uid], "mode", None) = "monthly"
            /\ Handled(uid, "select_group")
            /\ last'.arg \in DOMAIN get_groups(db))
           => (/\ uid \in DOMAIN TEMP'
               /\ TEMP'[uid] = [flow |-> "report", mode |-> "monthly",
                                group_for_report |-> last'.arg])
        /\ (/\ InFlow(uid, "report")
            /\ DictGet(TEMP[uid], "mode", None) = "monthly"
            /\ "group_for_report" \in DOMAIN TEMP[uid]
            /\ Handled(uid, "month")
            /\ last'.arg \in 1..12)
           => (last'.out \in {FOUND, NOT_FOUND} /\ uid \notin DOMAIN TEMP')]_vars

(***************************************************************************)
(* C4: with no active session every flow action of an operator is answered *)
(* with the no-active-process notice, creates no session and leaves the    *)
(* document and the backups as they were.                                  *)
(***************************************************************************)
C4_NoSessionNoOp ==
    [][\A uid \in ADMIN_IDS :
        (~HasState(uid) /\ last'.act \in FlowActions /\ Handled(uid, last'.act)) =>
            /\ last'.out \in {NO_PROCESS, NO_STATE}
            /\ TEMP' = TEMP
            /\ db' = db
            /\ backups' = backups]_vars

C4_Witness ==
    /\ last.uid \in ADMIN_IDS
    /\ last.act = "toggle_student"
    /\ last.out = NO_PROCESS
    /\ ~HasState(last.uid)
    /\ commits = 1

(***************************************************************************)
(* C5: an attendance-flow action the transition table does not enable in   *)
(* the current stage changes neither the session nor the document; no      *)
(* record is committed unless the session is in PreviewConfirm.            *)
(***************************************************************************)
C5_DisabledActionNoOp ==
    [][\A uid \in ADMIN_IDS :
        (/\ InFlow(uid, "attend")
         /\ \/ (Stage(uid) # "PreviewConfirm" /\ Handled(uid, "final_confirm"))
            \/ (Stage(uid) \in {"PeriodSelection", "PreviewConfirm"}
                /\ (Handled(uid, "toggle_student") \/ Handled(uid, "bulk")))
            \/ (Stage(uid) = "GroupSelected" /\ Handled(uid, "para")))
        => (TEMP' = TEMP /\ db' = db)]_vars

(***************************************************************************)
(* C6: an update of a user who is not on the allow-list changes neither    *)
(* the session map nor the document nor the backups.                       *)
(***************************************************************************)
C6_UnauthorizedNoEffect ==
    [][\A uid \in Users \ ADMIN_IDS :
        (steps' = steps + 1 /\ today' = today /\ last'.uid = uid) =>
            (TEMP' = TEMP /\ db' = db /\ backups' = backups /\ screen' = screen)]_vars

C6_Witness ==
    /\ last.uid \notin ADMIN_IDS
    /\ last.uid \in Users
    /\ last.act = "final_confirm"
    /\ last.out = DENY_CALLBACK
    /\ \E a \in ADMIN_IDS : InFlow(a, "attend")

(***************************************************************************)
(* C7: every command of a user who is not on the allow-list is answered    *)
(* with a denial notice.                                                   *)
(***************************************************************************)
C7_CommandsDenied ==
    [][\A uid \in Users \ ADMIN_IDS :
        (steps' = steps + 1 /\ today' = today /\ last'.uid = uid
         /\ last'.act \in Commands)
        => last'.out \in DenialNotices]_vars

(***************************************************************************)
(* C8: when a final confirm completes and the document already holds,      *)
(* under the same date, a record of another operator for another group,    *)
(* the range query of that date returns both records, each with its own    *)
(* recorder. C8_BothRecords states it for every completion;                *)
(* C8_BothRecordsNoOverlap for a confirm whose load-modify-save cycle no   *)
(* other write to the document fell into.                                  *)
(***************************************************************************)
BothReturned(uid, rec, date_key, before, after) ==
    LET q == get_attendance_in_range(after, date_key, date_key) IN
    \A i \in DOMAIN RecordsOn(before, date_key) :
        LET r == RecordsOn(before, date_key)[i] IN
        (r.recorder.id # uid /\ r.group # rec.group) =>
            /\ \E j \in DOMAIN q : q[j] = r
            /\ \E j \in DOMAIN q : q[j] = rec /\ q[j].recorder.id = uid

C8_BothRecords ==
    [][\A w \in Workers :
        (Finishes(w) /\ jobs[w].act = "final_confirm") =>
            BothReturned(jobs[w].uid, jobs[w].upd.rec, jobs[w].upd.date_key, db, db')]_vars

C8_BothRecordsNoOverlap ==
    [][\A w \in Workers :
        (Finishes(w) /\ jobs[w].act = "final_confirm" /\ jobs[w].doc = db) =>
            BothReturned(jobs[w].uid, jobs[w].upd.rec, jobs[w].upd.date_key, db, db')]_vars

C8_Witness ==
    LET q == get_attendance_in_range(db, strftime(today), strftime(today)) IN
    /\ last.act = "final_confirm"
    /\ Len(q) = 2
    /\ q[1].recorder.id # q[2].recorder.id
    /\ q[1].group # q[2].group
    /\ q[2].recorder.id = last.uid

(***************************************************************************)
(* C9: a writer that saves after another write has reached the document    *)
(* since its own load stores its stale copy with its own update only: the  *)
(* other update is gone. The witness is the lost update: two final         *)
(* confirms were saved and the document holds one record.                  *)
(***************************************************************************)
C9_StaleSaveOverwrites ==
    [][\A w \in Workers :
        (Finishes(w) /\ jobs[w].act = "final_confirm" /\ jobs[w].doc # db) =>
            /\ db' = Apply(jobs[w].doc, jobs[w].upd)
            /\ db' # Apply(db, jobs[w].upd)
            /\ NumRecords(db') = NumRecords(jobs[w].doc) + 1]_vars

C9_LostUpdate ==
    /\ commits = 2
    /\ NumRecords(db) = 1
    /\ jobs = EmptyDict

(***************************************************************************)
(* C10: a restore that names a snapshot that does not exist or cannot be   *)
(* parsed reports failure and a load after it returns what a load before   *)
(* it returned.                                                            *)
(***************************************************************************)
C10_FailedRestoreKeepsDocument ==
    [][\A uid \in ADMIN_IDS :
        (/\ Handled(uid, "restore_from")
         /\ last'.arg # NoName
         /\ \/ last'.arg \notin DOMAIN backups
            \/ backups[last'.arg] = Unparsable)
        => (/\ last'.out \in {NO_BACKUP, RESTORE_FAILED}
            /\ load_db(db') = load_db(db))]_vars

C10_Witness ==
    /\ last.act = "restore_from"
    /\ last.arg = CorruptName
    /\ last.out = RESTORE_FAILED
    /\ db # InitialDb

(***************************************************************************)
(* C11: save is atomic: the stored file always holds a complete document,  *)
(* never an empty or partly written one, also in the middle of a save.     *)
(***************************************************************************)
C11_StoredFileComplete == IsDocument(db)

(***************************************************************************)
(* C12: decoding the encoding of a string gives the string back, for every *)
(* string, also one that contains the text of an escape sequence.          *)
(***************************************************************************)
C12_DecodeEncodeIdentity == (last.act = "decode_cb") => (last.out = last.arg)

Statuses == {"present", "sababsiz", "sababli"}

StatusCycle == [present |-> "sababsiz", sababsiz |-> "sababli", sababli |-> "present"]

(***************************************************************************)
(* C13: in an attendance session a toggle of a student who holds a status  *)
(* in the status map moves that student one step along the cycle present,  *)
(* sababsiz, sababli, present and leaves every other entry and the order   *)
(* as they were; two more toggles of the same student give the map from    *)
(* before the first one back; every status in the map stays one of the     *)
(* three values.                                                           *)
(***************************************************************************)
C13_ToggleCycles ==
    [][\A uid \in ADMIN_IDS :
        (/\ InFlow(uid, "attend")
         /\ Handled(uid, "toggle_student")
         /\ last'.arg \in SmKeys(TEMP[uid].status_map))
        => LET sm == TEMP[uid].status_map
               sm1 == TEMP'[uid].status_map
               s == last'.arg
           IN /\ Len(sm1) = Len(sm)
              /\ \A i \in DOMAIN sm :
                    /\ sm1[i][1] = sm[i][1]
                    /\ sm[i][1] # s => sm1[i] = sm[i]
                    /\ sm1[i][2] \in Statuses
              /\ SmGet(sm1, s, None) = StatusCycle[SmGet(sm, s, None)]
              /\ ToggleMap(ToggleMap(sm1, s), s) = sm]_vars

C13_ThreeToggles ==
    /\ steps = 3
    /\ last.act = "toggle_student"
    /\ last.out = OK
    /\ InFlow(last.uid, "attend")
    /\ last.arg \in SeqSet(SampleStudents)
    /\ TEMP[last.uid].status_map = SmUniform(SampleStudents, "present")

(***************************************************************************)
(* C14: in an attendance session a bulk action gives the status map        *)
(* exactly one entry per student of the session's group, in group order,   *)
(* each with the status of the action; the same bulk action run again      *)
(* right after it leaves the status map as it is.                          *)
(***************************************************************************)
C14_BulkSetsAllAndIsIdempotent ==
    [][\A uid \in ADMIN_IDS :
        (/\ InFlow(uid, "attend")
         /\ Handled(uid, "bulk")
         /\ last'.out = OK)
        => LET students == get_groups(db)[TEMP[uid].group].students
               sm1 == TEMP'[uid].status_map
           IN /\ Len(sm1) = Len(students)
              /\ \A i \in DOMAIN students : sm1[i] = <<students[i], last'.arg>>
              /\ (last.act = "bulk" /\ last.out = OK /\ last.uid = uid
                  /\ last.arg = last'.arg)
                 => sm1 = TEMP[uid].status_map]_vars

C14_Witness ==
    /\ steps = 3
    /\ last.act = "bulk"
    /\ last.arg = "sababsiz"
    /\ last.out = OK
    /\ InFlow(last.uid, "attend")
    /\ SmWith(TEMP[last.uid].status_map, "sababsiz") = SampleStudents

\* The students that hold status v in a status map, in the map's order.
Holding(sm, v) ==
    LET sel == SelectSeq(sm, LAMBDA e : e[2] = v)
    IN [i \in DOMAIN sel |-> sel[i][1]]

IndexIn(seq, x) == CHOOSE i \in DOMAIN seq : seq[i] = x

\* The members of the roster that occur in list occur in the roster's order.
InGroupOrder(list, students) ==
    \A i, j \in DOMAIN list :
        (i < j /\ list[i] \in SeqSet(students) /\ list[j] \in SeqSet(students))
            => IndexIn(students, list[i]) < IndexIn(students, list[j])

NewRecord(before, after, date_key) ==
    LET recs == RecordsOn(after, date_key) IN recs[Len(recs)]

(***************************************************************************)
(* C15: the record a final confirm commits has the session's group, the    *)
(* period the last select-period action stored in the session, and under   *)
(* present, sababsiz and sababli exactly the students that hold that       *)
(* status in the session's status map at that moment, the group's          *)
(* students in group order; a select-period action stores its period in    *)
(* the session.                                                            *)
(***************************************************************************)
C15_RecordReflectsSession ==
    [][\A uid \in ADMIN_IDS :
        /\ (/\ InFlow(uid, "attend")
            /\ "selected_para" \in DOMAIN TEMP[uid]
            /\ Handled(uid, "final_confirm")
            /\ last'.out = OK)
           => LET state == TEMP[uid]
                  r == NewRecord(db, db', strftime(today))
                  students == get_groups(db)[state.group].students
              IN /\ r.group = state.group
                 /\ r.para = state.selected_para
                 /\ r.present = Holding(state.status_map, "present")
                 /\ r.sababsiz = Holding(state.status_map, "sababsiz")
                 /\ r.sababli = Holding(state.status_map, "sababli")
                 /\ InGroupOrder(r.present, students)
                 /\ InGroupOrder(r.sababsiz, students)
                 /\ InGroupOrder(r.sababli, students)
        /\ (InFlow(uid, "attend") /\ Handled(uid, "para") /\ last'.out = OK)
           => TEMP'[uid].selected_para = last'.arg]_vars

C15_Witness ==
    /\ last.act = "final_confirm"
    /\ last.out = OK
    /\ commits = 1
    /\ LET recs == RecordsOn(db, strftime(today)) IN
       /\ Len(recs) = 1
       /\ recs[1].group = SampleGroup
       /\ recs[1].para = "2"
       /\ recs[1].present = <<SampleStudents[1]>>
       /\ recs[1].sababsiz = <<SampleStudents[2]>>
       /\ recs[1].sababli = <<>>

\* Date keys in calendar order.
KeyLE(a, b) == a[1] < b[1] \/ (a[1] = b[1] /\ a[2] <= b[2])

RECURSIVE ConcatAscending(_, _)
ConcatAscending(attendance, keys) ==
    IF keys = {} THEN <<>>
    ELSE LET k == CHOOSE x \in keys : \A y \in keys : KeyLE(x, y)
         IN attendance[k] \o ConcatAscending(attendance, keys \ {k})

(***************************************************************************)
(* C16: the range query returns the lists stored under the date keys d     *)
(* with start <= d <= end, both ends included, one after the other in      *)
(* ascending order of d, each list in append order; for start = end it     *)
(* returns the list stored under that key.                                 *)
(***************************************************************************)
C16_RangeQueryConcatenates ==
    [][(db' = db /\ today' = today /\ last'.act = "get_attendance_in_range") =>
        LET s == last'.arg[1]
            e == last'.arg[2]
            inside == {k \in DOMAIN db.attendance : KeyLE(s, k) /\ KeyLE(k, e)}
        IN /\ last'.out = ConcatAscending(db.attendance, inside)
           /\ (s = e) => last'.out = RecordsOn(db, s)]_vars

C16_Witness ==
    /\ last.act = "get_attendance_in_range"
    /\ last.arg = << <<5, 31>>, <<6, 1>> >>
    /\ Len(last.out) = 2
    /\ Len(RecordsOn(db, <<5, 31>>)) = 1
    /\ Len(RecordsOn(db, <<6, 1>>)) = 1
    /\ last.out[1] = RecordsOn(db, <<5, 31>>)[1]
    /\ last.out[2] = RecordsOn(db, <<6, 1>>)[1]
    /\ last.out[1] # last.out[2]

\* The group has a record under a date key of June, July or August.
HasSummerRecord(doc, group) ==
    \E k \in DOMAIN doc.attendance :
        /\ k[1] \in {6, 7, 8}
        /\ \E i \in DOMAIN doc.attendance[k] : doc.attendance[k][i].group = group

(***************************************************************************)
(* C17: the month keyboard of the monthly report offers the months 1 to 5  *)
(* and 9 to 12 and not 6, 7, 8; the yearly report of a group that has a    *)
(* record under a date key of month 6, 7 or 8 shows the group's records,   *)
(* those included, and ends the session.                                   *)
(***************************************************************************)
C17_YearlyReportCoversSummer ==
    [][/\ SeqSet(month_kb) = {1, 2, 3, 4, 5, 9, 10, 11, 12}
       /\ \A uid \in ADMIN_IDS :
            (/\ InFlow(uid, "report")
             /\ DictGet(TEMP[uid], "mode", None) = "yearly"
             /\ Handled(uid, "select_group")
             /\ last'.arg \in DOMAIN get_groups(db)
             /\ HasSummerRecord(db, last'.arg))
            => (last'.out = FOUND /\ uid \notin DOMAIN TEMP')]_vars

Prefix(a, b) == Len(a) <= Len(b) /\ SubSeq(b, 1, Len(a)) = a

\* Every list of the document before is a prefix of the list under its key after.
ListsOnlyGrow(before, after) ==
    \A k \in DOMAIN before.attendance :
        /\ k \in DOMAIN after.attendance
        /\ Prefix(before.attendance[k], after.attendance[k])

RestoreSucceeds ==
    /\ steps' = steps + 1
    /\ today' = today
    /\ last'.act = "restore_from"
    /\ last'.out = RESTORED

(***************************************************************************)
(* C18: attendance lists are append-only. C18_AppendOnly states it for     *)
(* every step: the list under each date key before the step is a prefix of *)
(* the list under that key after it. C18_AppendOnlyExceptRestore states it *)
(* for every step but a restore that succeeds, and for that step that the  *)
(* document becomes the snapshot.                                          *)
(***************************************************************************)
C18_AppendOnly == [][ListsOnlyGrow(db, db')]_vars

C18_AppendOnlyExceptRestore ==
    [][IF RestoreSucceeds
       THEN db' = backups[last'.arg]
       ELSE ListsOnlyGrow(db, db')]_vars

C18_Witness ==
    /\ last.act = "restore_from"
    /\ last.out = RESTORED
    /\ commits = 1
    /\ NumRecords(db) = 0

AttendOnlyActions == {"back_students", "back_para", "final_cancel", "final_confirm"}

C20_ReportSessionNoOp ==
    [][\A uid \in ADMIN_IDS :
        (/\ InFlow(uid, "report")
         /\ last'.act \in AttendOnlyActions
         /\ Handled(uid, last'.act))
        => (/\ last'.out \in {NO_PROCESS, NO_STATE}
            /\ TEMP' = TEMP
            /\ db' = db)]_vars

(***************************************************************************)
(* C21: starting a flow overwrites the operator's session. After a         *)
(* select-group of an existing group g the session is exactly the          *)
(* attendance session of g with every student of g present, and after a    *)
(* report-type button with mode m it is exactly the report session of mode *)
(* m: no field of an earlier session is left in either.                    *)
(***************************************************************************)
C21_NewFlowOverwritesSession ==
    [][\A uid \in ADMIN_IDS :
        /\ (Handled(uid, "select_group") /\ last'.out = OK) =>
              LET g == last'.arg
                  students == get_groups(db)[g].students
                  state == TEMP'[uid]
              IN /\ DOMAIN state = {"flow", "group", "status_map"}
                 /\ state.flow = "attend"
                 /\ state.group = g
                 /\ state.status_map =
                       [i \in DOMAIN students |-> <<students[i], "present">>]
        /\ Handled(uid, "report") =>
              /\ DOMAIN TEMP'[uid] = {"flow", "mode"}
              /\ TEMP'[uid].flow = "report"
              /\ TEMP'[uid].mode = last'.arg]_vars

C21_Witness ==
    /\ steps = 1
    /\ last.uid = FlowOperator
    /\ last.act = "report"
    /\ last.arg = "weekly"
    /\ TEMP[FlowOperator] = [flow |-> "report", mode |-> "weekly"]

(***************************************************************************)
(* C22: confirm-students in GroupSelected, back in PeriodSelection, back   *)
(* and cancel in PreviewConfirm keep the operator's session with its group *)
(* and status map as they were and leave the document unchanged, and after *)
(* the cancel the operator is back at the student list of GroupSelected.   *)
(***************************************************************************)
Navigates(uid) ==
    \/ Stage(uid) = "GroupSelected" /\ Handled(uid, "confirm_students")
    \/ Stage(uid) = "PeriodSelection" /\ Handled(uid, "back_students")
    \/ Stage(uid) = "PreviewConfirm" /\ Handled(uid, "back_para")
    \/ Stage(uid) = "PreviewConfirm" /\ Handled(uid, "final_cancel")

KeepsSession(uid) ==
    /\ uid \in DOMAIN TEMP'
    /\ TEMP'[uid].flow = "attend"
    /\ TEMP'[uid].group = TEMP[uid].group
    /\ TEMP'[uid].status_map = TEMP[uid].status_map
    /\ db' = db

C22_NavigationKeepsSession ==
    [][\A uid \in ADMIN_IDS :
        Navigates(uid) =>
            /\ KeepsSession(uid)
            /\ last'.act = "final_cancel" => screen'[uid] = "student_kb"]_vars

(***************************************************************************)
(* C23: sessions are isolated per operator and do not expire. A step that  *)
(* is not the handling of an update of operator b (an update of another    *)
(* user, or the passing of a day) neither creates nor changes nor removes  *)
(* the session of b.                                                       *)
(***************************************************************************)
C23_SessionsIsolated ==
    [][\A b \in ADMIN_IDS :
        (steps' = steps + 1 /\ (today' # today \/ last'.uid # b)) =>
            /\ (b \in DOMAIN TEMP') = HasState(b)
            /\ HasState(b) => TEMP'[b] = TEMP[b]]_vars

C23_Witness ==
    /\ last.act = "final_confirm"
    /\ last.out = OK
    /\ last.uid # FlowOperator
    /\ ~HasState(last.uid)
    /\ InFlow(FlowOperator, "attend")
    /\ TEMP[FlowOperator].group = SampleGroup

(***************************************************************************)
(* C24: a select-group that names a group the document does not hold is    *)
(* answered with the group-not-found notice; it creates no session, leaves *)
(* a session the operator has (of either flow) as it was, and leaves the   *)
(* document unchanged.                                                     *)
(***************************************************************************)
C24_AbsentGroupNoOp ==
    [][\A uid \in ADMIN_IDS :
        (Handled(uid, "select_group") /\ last'.arg \notin DOMAIN get_groups(db)) =>
            /\ last'.out = NO_GROUP
            /\ TEMP' = TEMP
            /\ db' = db
            /\ backups' = backups
            /\ screen' = screen]_vars

C24_Witness ==
    /\ last.act = "select_group"
    /\ last.arg \notin DOMAIN get_groups(db)
    /\ last.out = NO_GROUP
    /\ InFlow(last.uid, "report")
    /\ \E other \in ADMIN_IDS : InFlow(other, "attend")

(***************************************************************************)
(* C25: the period of every record in the document is one of 1, 2, 3, 4    *)
(* and the whole day, whatever payload the select-period buttons carried.  *)
(***************************************************************************)
PeriodSelector == {"1", "2", "3", "4", "all"}

C25_PeriodInSelector ==
    \A date_key \in DOMAIN db.attendance :
        \A i \in DOMAIN db.attendance[date_key] :
            db.attendance[date_key][i].para \in PeriodSelector

(***************************************************************************)
(* C26: /cancel removes the operator's session, whatever its flow and      *)
(* stage, and leaves the document unchanged; while the operator then has   *)
(* no session, toggle, bulk, confirm-students, select-period, final        *)
(* confirm and select-month change neither the session map nor the         *)
(* document, until a select-group or a report-type button starts a flow.   *)
(***************************************************************************)
SessionActions ==
    {"toggle_student", "bulk", "confirm_students", "para", "final_confirm", "month"}

C26_CancelEndsSession ==
    [][\A uid \in ADMIN_IDS :
        /\ (HasState(uid) /\ Handled(uid, "cancel")) =>
              /\ last'.out = CANCELLED
              /\ uid \notin DOMAIN TEMP'
              /\ db' = db
        /\ (~HasState(uid) /\ last'.act \in SessionActions /\ Handled(uid, last'.act)) =>
              /\ last'.out \in {NO_PROCESS, STATE_MISMATCH}
              /\ TEMP' = TEMP
              /\ db' = db
        /\ (~HasState(uid) /\ uid \in DOMAIN TEMP') =>
              (last'.uid = uid /\ last'.act \in {"select_group", "report"})]_vars

C26_Witness ==
    /\ steps = 2
    /\ commits = 0
    /\ last.uid = FlowOperator
    /\ last.act = "month"
    /\ last.out = STATE_MISMATCH
    /\ ~HasState(FlowOperator)

(***************************************************************************)
(* C27: the report an operator gets for the group chosen in a report       *)
(* session shows the records of that group in the range of the session's   *)
(* mode: today for daily, the seven days that end today for weekly, the    *)
(* whole year for yearly, and for monthly the whole month chosen next.     *)
(***************************************************************************)
ReportRange(mode) ==
    IF mode = "daily" THEN <<strftime(today), strftime(today)>>
    ELSE IF mode = "weekly" THEN <<strftime(today - 6), strftime(today)>>
    ELSE <<strftime(MonthStart(1)), strftime(MonthStart(12) + DaysInMonth[12] - 1)>>

MonthRange(m) == <<strftime(MonthStart(m)), strftime(MonthStart(m) + DaysInMonth[m] - 1)>>

Shown(doc, range, group) ==
    IF FilterGroup(get_attendance_in_range(doc, range[1], range[2]), group) = <<>>
    THEN NOT_FOUND ELSE FOUND

C27_ReportShowsModeRange ==
    [][\A uid \in ADMIN_IDS :
        /\ (/\ InFlow(uid, "report")
            /\ DictGet(TEMP[uid], "mode", None) \in {"daily", "weekly", "yearly"}
            /\ Handled(uid, "select_group")
            /\ last'.arg \in DOMAIN get_groups(db))
           => last'.out = Shown(db, ReportRange(TEMP[uid].mode), last'.arg)
        /\ (/\ InFlow(uid, "report")
            /\ DictGet(TEMP[uid], "mode", None) = "monthly"
            /\ "group_for_report" \in DOMAIN TEMP[uid]
            /\ Handled(uid, "month")
            /\ last'.arg \in 1..12)
           => last'.out = Shown(db, MonthRange(last'.arg), TEMP[uid].group_for_report)]_vars

(***************************************************************************)
(* C28: one session commits at most one record. When a final confirm of an *)
(* operator has succeeded and the next answer is again to a final confirm  *)
(* of that operator (no select-group in between gave a new session), the   *)
(* second one appends no record.                                           *)
(***************************************************************************)
C28_SecondConfirmAppendsNothing ==
    [][(/\ last.act = "final_confirm"
        /\ last.out = OK
        /\ last'.act = "final_confirm"
        /\ last'.uid = last.uid
        /\ (steps' # steps \/ commits' # commits))
       => NumRecords(db') = NumRecords(db)]_vars

C30_MonthQueryOnlyWhenOffered ==
    [][\A uid \in ADMIN_IDS :
        (Handled(uid, "month") /\ last'.out \in {FOUND, NOT_FOUND}) =>
            /\ last'.arg \in SeqSet(month_kb)
            /\ InFlow(uid, "report")
            /\ "group_for_report" \in DOMAIN TEMP[uid]]_vars

====
